---- MODULE Spec2Model ----
(***************************************************************************)
(* The two shared-memory stencil kernels of apps/StencilFast2 (masked ring *)
(* buffer) and apps/StencilFast3 (rotating triple buffer), run by the warps *)
(* of a thread block between block-wide barriers.  A warp is the unit of    *)
(* scheduling: its lanes execute one statement group in lockstep.  A block  *)
(* of blockDim = (SIMTLanes, SIMTWarps) threads takes every hardware thread *)
(* of the core, so the blocks of the grid are resident one at a time.       *)
(***************************************************************************)
EXTENDS Integers, Sequences, FiniteSets, TLC

\* ------------------------------------------------------------------ bounds
SIMTLanes    == 2   \* lanes per warp (blockDim.x)
MaxWarps     == 2   \* SIMTWarps ranges over 1..MaxWarps
MaxWindows   == 5   \* x_size / SIMTLanes ranges over 1..MaxWindows
MaxBlockRows == 2   \* y_size / SIMTWarps ranges over 1..MaxBlockRows
MaxCells     == 16  \* x_size * y_size is at most MaxCells
MaxStripCells == 20 \* the same for the one-block-row grids of SpecFast2

\* ------------------------------------------------------- program constants
MOD_MASK == 127     \* 0x7F of MOD_4XSIMTLANES

VARIABLES
  app,        \* which kernel is launched: "StencilFast2" or "StencilFast3"
  SIMTWarps,  \* warps per block of the build
  x_size, y_size, in_buf, out_buf,
  blockDim, gridDim,
  pending,    \* blocks of the grid not yet started
  blockIdx,   \* the resident block
  shared,     \* the resident block's shared memory, a flat word array
  written,    \* addresses of shared written since the block started
  pc, i, x, global_ind, result, left, middle, right,
  terms,      \* per lane: the directions added to result in this step, with the value read
  stored,     \* per output offset: number of stores of the launch
  steps,      \* per warp: loop iterations completed in the resident block
  arrivals,   \* per warp: barriers reached in the resident block
  acc,        \* the memory accesses of the last statement group executed
  tileWrites, \* the tile writes since the last barrier of the block: slot and writing lane
  trace,      \* per warp: the statements of the current step executed so far
  beyond,     \* what the words outside in_buf hold (not under the program's control)
  run, plan, prev_out   \* launches of the host: index, kernels to launch, output of the previous launch

vars == <<app, SIMTWarps, x_size, y_size, in_buf, out_buf, blockDim, gridDim,
          pending, blockIdx, shared, written, pc, i, x, global_ind, result,
          left, middle, right, terms, stored, steps, arrivals, acc, trace,
          tileWrites, beyond, run, plan, prev_out>>

Lanes == 0 .. SIMTLanes - 1
Warps == 0 .. SIMTWarps - 1
Cells == 0 .. x_size * y_size - 1
Dirs  == {"self", "right", "left", "down", "up"}
NoBlock == [x |-> 0 - 1, y |-> 0 - 1]
Garbage == {0, 1}
NoAcc == [op |-> "none", ty |-> 0, i |-> 0, log |-> {}]

\* Grid Addressing contract of the specification: row stride = x extent.
offset(cx, cy) == cy * x_size + cx
InGrid(cx, cy) == cx >= 0 /\ cx < x_size /\ cy >= 0 /\ cy < y_size

RECURSIVE SumOver(_, _)
SumOver(f, S) ==
  IF S = {} THEN 0
  ELSE LET d == CHOOSE e \in S : TRUE IN f[d] + SumOver(f, S \ {d})

\* ------------------------------------------------------------- host side
populate_in_buf(xs, ys) == [o \in 0 .. xs * ys - 1 |-> (o % xs) * (o \div xs)]

InputGrids(xs, ys) ==
  { populate_in_buf(xs, ys), [o \in 0 .. xs * ys - 1 |-> o * o + 1] }

\* the index expression y * x_size + x of StencilFast3 and y * y_size + x of
\* StencilFast2, as written in the kernels and the golden-output generators
ind3(cx, cy) == cy * x_size + cx
ind2(cx, cy) == cy * y_size + cx

\* generate_golden_output of StencilFast3
generate_golden_output3 ==
  [o \in Cells |->
     LET cx == o % x_size
         cy == o \div x_size
     IN in_buf[ind3(cx, cy)]
        + (IF cx < x_size - 1 THEN in_buf[ind3(cx + 1, cy)] ELSE 0)
        + (IF cx > 0 THEN in_buf[ind3(cx - 1, cy)] ELSE 0)
        + (IF cy < y_size - 1 THEN in_buf[ind3(cx, cy + 1)] ELSE 0)
        + (IF cy > 0 THEN in_buf[ind3(cx, cy - 1)] ELSE 0)]

Blocks == {[x |-> bx, y |-> by] : bx \in 0 .. gridDim.x - 1, by \in 0 .. gridDim.y - 1}

ArenaWords == 4 * SIMTWarps * SIMTLanes + MaxWindows * SIMTLanes
Arena == 0 .. ArenaWords - 1

Launch(k, W, xs, ys, input) ==
  /\ app = k
  /\ SIMTWarps = W
  /\ x_size = xs
  /\ y_size = ys
  /\ in_buf = input
  /\ out_buf = [o \in 0 .. xs * ys - 1 |-> 0]
  /\ blockDim = [x |-> SIMTLanes, y |-> W]
  /\ gridDim = [x |-> SIMTLanes, y |-> ys \div W]
  /\ pending = {[x |-> bx, y |-> by] : bx \in 0 .. SIMTLanes - 1, by \in 0 .. (ys \div W) - 1}
  /\ blockIdx = NoBlock
  /\ shared = [a \in 0 .. (4 * W * SIMTLanes + MaxWindows * SIMTLanes) - 1 |-> 0]
  /\ written = {}
  /\ pc = [w \in 0 .. W - 1 |-> "done"]
  /\ i = [w \in 0 .. W - 1 |-> 0]
  /\ x = [w \in 0 .. W - 1 |-> [l \in Lanes |-> 0]]
  /\ global_ind = [w \in 0 .. W - 1 |-> [l \in Lanes |-> 0]]
  /\ result = [w \in 0 .. W - 1 |-> [l \in Lanes |-> 0]]
  /\ left = [w \in 0 .. W - 1 |-> 0]
  /\ middle = [w \in 0 .. W - 1 |-> 0]
  /\ right = [w \in 0 .. W - 1 |-> 0]
  /\ terms = [w \in 0 .. W - 1 |-> [l \in Lanes |-> [e \in {} |-> 0]]]
  /\ stored = [o \in 0 .. xs * ys - 1 |-> 0]
  /\ steps = [w \in 0 .. W - 1 |-> 0]
  /\ arrivals = [w \in 0 .. W - 1 |-> 0]
  /\ acc = NoAcc
  /\ trace = [w \in 0 .. W - 1 |-> <<>>]
  /\ tileWrites = {}

Geometries ==
  {g \in [W : 1 .. MaxWarps, nx : 1 .. MaxWindows, ny : 1 .. MaxBlockRows] :
     (g.nx * SIMTLanes) * (g.ny * g.W) <= MaxCells}

Kernels == {"StencilFast2", "StencilFast3"}

\* main: one launch of the kernel of either application.
Init ==
  \E k \in Kernels, g \in Geometries :
    \E input \in InputGrids(g.nx * SIMTLanes, g.ny * g.W) :
      /\ Launch(k, g.W, g.nx * SIMTLanes, g.ny * g.W, input)
      /\ beyond \in Garbage
      /\ run = 1
      /\ plan = <<k>>
      /\ prev_out = <<>>

\* A host that launches twice on the same input buffer, with the same
\* geometry: the same kernel again, or StencilFast2 and then StencilFast3.
InitTwice ==
  \E p \in {<<"StencilFast2", "StencilFast3">>, <<"StencilFast2", "StencilFast2">>,
            <<"StencilFast3", "StencilFast3">>}, g \in Geometries :
    \E input \in InputGrids(g.nx * SIMTLanes, g.ny * g.W) :
      /\ Launch(p[1], g.W, g.nx * SIMTLanes, g.ny * g.W, input)
      /\ beyond \in Garbage
      /\ run = 1
      /\ plan = p
      /\ prev_out = <<>>

\* --------------------------------------------------------- memory helpers
Rec(buf, arr, wr, l, dir, addr, row, col, cx, cy, val) ==
  [buf |-> buf, arr |-> arr, wr |-> wr, tx |-> l, dir |-> dir, addr |-> addr,
   row |-> row, col |-> col, cx |-> cx, cy |-> cy, val |-> val]

Wrote(addr, w, l) == [addr |-> addr, ty |-> w, tx |-> l]

\* The lanes in `active` store V[l] at address A[l] of mem, in lockstep.
Store(mem, active, A, V) ==
  [a \in DOMAIN mem |->
     IF \E l \in active : A[l] = a
     THEN V[CHOOSE l \in active : A[l] = a]
     ELSE mem[a]]

\* Values a load from in_buf yields: the element, or, when the offset lies
\* outside the buffer, whatever the memory around the buffer holds.
Loads(O, active) ==
  {[l \in Lanes |-> IF l \notin active THEN 0
                    ELSE IF O[l] \in DOMAIN in_buf THEN in_buf[O[l]]
                    ELSE beyond]}

\* y of line 70 (the same expression in both files)
y(w) == blockIdx.y * blockDim.y + w

\* the step loop running one window too far
LoopCond_OneMore(iv) == iv <= x_size

\* the loop test i < x_size of the step loop (the same in both files)
LoopCond(iv) == iv < x_size

Step(w, to) == pc' = [pc EXCEPT ![w] = to]

\* the step loop without its __syncthreads
AfterPrefetch_NoSync == "self"

\* the statement that follows the prefetch in the step loop: __syncthreads()
AfterPrefetch == "barrier"

\* -------------------------------------------------- block dispatch, barrier
StartIndex(b, w, l) ==
  IF app = "StencilFast3" THEN ind3(l, b.y * blockDim.y + w)
                          ELSE ind2(l, b.y * blockDim.y + w)

\* The runtime starts a block of the grid once the resident one has finished,
\* the block rows in any order and the blocks of a row in the order of
\* blockIdx.x; the statements before the first shared-memory write set up
\* the thread state.
LaunchBlock(b) ==
  /\ \A w \in Warps : pc[w] = "done"
  /\ b \in pending
  /\ \A c \in pending : c.y = b.y => c.x >= b.x
  /\ pending' = pending \ {b}
  /\ blockIdx' = b
  /\ shared' = [a \in Arena |-> 0]
  /\ written' = {}
  /\ pc' = [w \in Warps |-> "init"]
  /\ i' = [w \in Warps |-> 0]
  /\ x' = [w \in Warps |-> [l \in Lanes |-> l]]
  /\ global_ind' = [w \in Warps |-> [l \in Lanes |-> StartIndex(b, w, l)]]
  /\ result' = [w \in Warps |-> [l \in Lanes |-> 0]]
  /\ left' = [w \in Warps |-> 0]
  /\ middle' = [w \in Warps |-> IF app = "StencilFast3" THEN SIMTWarps * SIMTLanes ELSE 0]
  /\ right' = [w \in Warps |-> IF app = "StencilFast3" THEN 2 * SIMTWarps * SIMTLanes ELSE 0]
  /\ terms' = [w \in Warps |-> [l \in Lanes |-> [e \in {} |-> 0]]]
  /\ steps' = [w \in Warps |-> 0]
  /\ arrivals' = [w \in Warps |-> 0]
  /\ acc' = [op |-> "launch", ty |-> 0, i |-> 0, log |-> {}]
  /\ trace' = [w \in Warps |-> <<>>]
  /\ tileWrites' = {}
  /\ UNCHANGED <<app, SIMTWarps, x_size, y_size, in_buf, out_buf, blockDim, gridDim,
                 stored, beyond, run, plan, prev_out>>

\* __syncthreads: no warp passes until every warp of the block has arrived.
Barrier ==
  /\ \A w \in Warps : pc[w] = "barrier"
  /\ pc' = [w \in Warps |-> "self"]
  /\ acc' = [op |-> "barrier", ty |-> 0, i |-> 0, log |-> {}]
  /\ trace' = [w \in Warps |-> Append(trace[w], "__syncthreads")]
  /\ tileWrites' = {}
  /\ UNCHANGED <<app, SIMTWarps, x_size, y_size, in_buf, out_buf, blockDim, gridDim,
                 pending, blockIdx, shared, written, i, x, global_ind, result,
                 left, middle, right, terms, stored, steps, arrivals, beyond, run, plan, prev_out>>

host == <<app, SIMTWarps, x_size, y_size, in_buf, blockDim, gridDim, pending, blockIdx,
          beyond, run, plan, prev_out>>

\* ------------------------------------------------------------ StencilFast3
\* element [r][c] of a SIMTWarps x SIMTLanes array at base
At3(base, r, c) == base + r * SIMTLanes + c

Init3(w) ==
  /\ app = "StencilFast3" /\ pc[w] = "init"
  /\ LET LA == [l \in Lanes |-> At3(left[w], w, l)]
         MA == [l \in Lanes |-> At3(middle[w], w, l)]
         V  == [l \in Lanes |-> in_buf[global_ind[w][l]]]
         s1 == Store(shared, Lanes, LA, [l \in Lanes |-> 0])
     IN /\ shared' = Store(s1, Lanes, MA, V)
        /\ written' = written \cup {LA[l] : l \in Lanes} \cup {MA[l] : l \in Lanes}
        /\ tileWrites' = tileWrites \cup {Wrote(LA[l], w, l) : l \in Lanes}
                                     \cup {Wrote(MA[l], w, l) : l \in Lanes}
        /\ acc' = [op |-> "init", ty |-> w, i |-> i[w], log |->
              {Rec("tile", "left", TRUE, l, "zero", LA[l], w, l, x[w][l] - SIMTLanes, y(w), 0) : l \in Lanes}
              \cup {Rec("in", "in_buf", FALSE, l, "self", global_ind[w][l], 0, 0, x[w][l], y(w), V[l]) : l \in Lanes}
              \cup {Rec("tile", "middle", TRUE, l, "self", MA[l], w, l, x[w][l], y(w), V[l]) : l \in Lanes}]
  /\ Step(w, IF LoopCond(i[w]) THEN "prefetch" ELSE "done")
  /\ UNCHANGED <<host, out_buf, i, x, global_ind, result, left, middle, right, terms,
                 stored, steps, arrivals, trace>>

PrefetchCond(iv) == iv + SIMTLanes < x_size

Prefetch3(w) ==
  /\ app = "StencilFast3" /\ pc[w] = "prefetch"
  /\ LET RA == [l \in Lanes |-> At3(right[w], w, l)]
         O  == [l \in Lanes |-> global_ind[w][l] + SIMTLanes]
     IN IF PrefetchCond(i[w])
        THEN LET V == [l \in Lanes |-> in_buf[O[l]]]
             IN /\ shared' = Store(shared, Lanes, RA, V)
                /\ written' = written \cup {RA[l] : l \in Lanes}
                /\ tileWrites' = tileWrites \cup {Wrote(RA[l], w, l) : l \in Lanes}
                /\ acc' = [op |-> "prefetch", ty |-> w, i |-> i[w], log |->
                     {Rec("in", "in_buf", FALSE, l, "next", O[l], 0, 0, x[w][l] + SIMTLanes, y(w), V[l]) : l \in Lanes}
                     \cup {Rec("tile", "right", TRUE, l, "next", RA[l], w, l, x[w][l] + SIMTLanes, y(w), V[l]) : l \in Lanes}]
        ELSE /\ UNCHANGED <<shared, written, tileWrites>>
             /\ acc' = [op |-> "prefetch", ty |-> w, i |-> i[w], log |-> {}]
  /\ Step(w, AfterPrefetch)
  /\ arrivals' = [arrivals EXCEPT ![w] = @ + 1]
  /\ trace' = [trace EXCEPT ![w] = <<"prefetch">>]
  /\ UNCHANGED <<host, out_buf, i, x, global_ind, result, left, middle, right, terms,
                 stored, steps>>

Tile3(arr, base, r, c) ==
  [buf |-> "tile", arr |-> arr, addr |-> At3(base, r, c), row |-> r, col |-> c]
Global(off) ==
  [buf |-> "in", arr |-> "in_buf", addr |-> off, row |-> 0, col |-> 0]

Extend(f, d, v) == [e \in DOMAIN f \cup {d} |-> IF e = d THEN v ELSE f[e]]

\* the reconvergence point left out
noclConverge_Elided(t) == t

\* noclConverge(): the lanes of the warp reconverge, whatever branch each took
noclConverge(t) == Append(t, "noclConverge")

\* One statement group of the stencil computation, executed by the lanes of
\* warp w in lockstep: the lanes with cond[l] load from src[l] and add the
\* value to result (the "self" group initialises result instead).
Gather(w, d, to, cond, src, nb) ==
  /\ LET G == {l \in Lanes : cond[l] /\ src[l].buf = "in"}
         O == [l \in Lanes |-> src[l].addr]
     IN \E g \in Loads(O, G) :
          LET v == [l \in Lanes |-> IF src[l].buf = "tile" THEN shared[src[l].addr] ELSE g[l]]
          IN /\ result' = [result EXCEPT ![w] =
                   [l \in Lanes |-> IF d = "self" THEN v[l]
                                    ELSE IF cond[l] THEN result[w][l] + v[l]
                                    ELSE result[w][l]]]
             /\ terms' = [terms EXCEPT ![w] =
                   [l \in Lanes |-> IF d = "self" THEN [e \in {"self"} |-> v[l]]
                                    ELSE IF cond[l] THEN Extend(terms[w][l], d, v[l])
                                    ELSE terms[w][l]]]
             /\ acc' = [op |-> d, ty |-> w, i |-> i[w], log |->
                   {Rec(src[l].buf, src[l].arr, FALSE, l, d, src[l].addr, src[l].row,
                        src[l].col, nb[l][1], nb[l][2], v[l]) : l \in {k \in Lanes : cond[k]}}]
  /\ trace' = [trace EXCEPT ![w] = IF d = "self" THEN Append(@, d)
                                   ELSE noclConverge(Append(@, d))]
  /\ Step(w, to)
  /\ UNCHANGED <<host, out_buf, shared, written, i, x, global_ind, left, middle, right,
                 stored, steps, arrivals, tileWrites>>

\* the right-edge guard off by one
HasRight3_OffByOne(xv) == xv < x_size

HasRight3(xv) == xv < x_size - 1
HasLeft3(xv)  == xv > 0
HasDown3(yv)  == yv < y_size - 1
HasUp3(yv)    == yv > 0

Self3(w) ==
  /\ app = "StencilFast3" /\ pc[w] = "self"
  /\ Gather(w, "self", "right",
            [l \in Lanes |-> TRUE],
            [l \in Lanes |-> Tile3("middle", middle[w], w, l)],
            [l \in Lanes |-> <<x[w][l], y(w)>>])

Right3(w) ==
  /\ app = "StencilFast3" /\ pc[w] = "right"
  /\ Gather(w, "right", "left",
            [l \in Lanes |-> HasRight3(x[w][l])],
            [l \in Lanes |-> IF l = blockDim.x - 1 THEN Tile3("right", right[w], w, 0)
                             ELSE Tile3("middle", middle[w], w, l + 1)],
            [l \in Lanes |-> <<x[w][l] + 1, y(w)>>])

Left3(w) ==
  /\ app = "StencilFast3" /\ pc[w] = "left"
  /\ Gather(w, "left", "down",
            [l \in Lanes |-> HasLeft3(x[w][l])],
            [l \in Lanes |-> IF l = 0 THEN Tile3("left", left[w], w, SIMTLanes - 1)
                             ELSE Tile3("middle", middle[w], w, l - 1)],
            [l \in Lanes |-> <<x[w][l] - 1, y(w)>>])

Down3(w) ==
  /\ app = "StencilFast3" /\ pc[w] = "down"
  /\ Gather(w, "down", "up",
            [l \in Lanes |-> HasDown3(y(w))],
            [l \in Lanes |-> IF w = blockDim.y - 1 THEN Global(ind3(x[w][l], y(w) + 1))
                             ELSE Tile3("middle", middle[w], w + 1, l)],
            [l \in Lanes |-> <<x[w][l], y(w) + 1>>])

Up3(w) ==
  /\ app = "StencilFast3" /\ pc[w] = "up"
  /\ Gather(w, "up", "writeback",
            [l \in Lanes |-> HasUp3(y(w))],
            [l \in Lanes |-> IF w = 0 THEN Global(ind3(x[w][l], y(w) - 1))
                             ELSE Tile3("middle", middle[w], w - 1, l)],
            [l \in Lanes |-> <<x[w][l], y(w) - 1>>])

\* out_buf[global_ind] = result, common to both kernels; a store outside the
\* buffer leaves out_buf as it is and is visible in acc only.
Writeback(w) ==
  /\ pc[w] = "writeback"
  /\ out_buf' = Store(out_buf, Lanes, global_ind[w], result[w])
  /\ stored' = [o \in DOMAIN stored |->
                  stored[o] + Cardinality({l \in Lanes : global_ind[w][l] = o})]
  /\ acc' = [op |-> "writeback", ty |-> w, i |-> i[w], log |->
        {Rec("out", "out_buf", TRUE, l, "self", global_ind[w][l], 0, 0, x[w][l], y(w),
             result[w][l]) : l \in Lanes}]
  /\ trace' = [trace EXCEPT ![w] = Append(@, "writeback")]
  /\ Step(w, "advance")
  /\ UNCHANGED <<host, shared, written, i, x, global_ind, result, left, middle, right,
                 terms, steps, arrivals, tileWrites>>

Advance3(w) ==
  /\ app = "StencilFast3" /\ pc[w] = "advance"
  /\ global_ind' = [global_ind EXCEPT ![w] = [l \in Lanes |-> @[l] + SIMTLanes]]
  /\ x' = [x EXCEPT ![w] = [l \in Lanes |-> @[l] + SIMTLanes]]
  /\ left' = [left EXCEPT ![w] = middle[w]]
  /\ middle' = [middle EXCEPT ![w] = right[w]]
  /\ i' = [i EXCEPT ![w] = @ + SIMTLanes]
  /\ steps' = [steps EXCEPT ![w] = @ + 1]
  /\ Step(w, IF LoopCond(i[w] + SIMTLanes) THEN "prefetch" ELSE "done")
  /\ acc' = [op |-> "advance", ty |-> w, i |-> i[w], log |-> {}]
  /\ trace' = [trace EXCEPT ![w] = Append(@, "advance")]
  /\ UNCHANGED <<host, out_buf, shared, written, result, right, terms, stored, arrivals,
                 tileWrites>>

\* ------------------------------------------------------------ StencilFast2
\* a & b for a mask b >= 0 (a in two's complement: \div rounds down, % is >= 0)
RECURSIVE BitAnd(_, _)
BitAnd(a, b) ==
  IF b = 0 THEN 0
  ELSE (a % 2) * (b % 2) + 2 * BitAnd(a \div 2, b \div 2)

\* a ring of two windows instead of the 0x7F mask
MOD_2XSIMTLANES(ind) == ind % (2 * SIMTLanes)

MOD_4XSIMTLANES(ind) == BitAnd(ind, MOD_MASK)

shared_mem_x_size == SIMTLanes * 4

\* element [r][col] of the SIMTWarps x shared_mem_x_size array c
At2(r, col) == r * shared_mem_x_size + col

Tile2(r, col) ==
  [buf |-> "tile", arr |-> "c", addr |-> At2(r, col), row |-> r, col |-> col]

Init2(w) ==
  /\ app = "StencilFast2" /\ pc[w] = "init"
  /\ LET CA == [l \in Lanes |-> At2(w, MOD_4XSIMTLANES(x[w][l]))]
     IN \E V \in Loads(global_ind[w], Lanes) :
        /\ shared' = Store(shared, Lanes, CA, V)
        /\ written' = written \cup {CA[l] : l \in Lanes}
        /\ tileWrites' = tileWrites \cup {Wrote(CA[l], w, l) : l \in Lanes}
        /\ acc' = [op |-> "init", ty |-> w, i |-> i[w], log |->
              {Rec("in", "in_buf", FALSE, l, "self", global_ind[w][l], 0, 0, x[w][l], y(w), V[l]) : l \in Lanes}
              \cup {Rec("tile", "c", TRUE, l, "self", CA[l], w, MOD_4XSIMTLANES(x[w][l]), x[w][l], y(w), V[l]) : l \in Lanes}]
  /\ Step(w, IF LoopCond(i[w]) THEN "prefetch" ELSE "done")
  /\ UNCHANGED <<host, out_buf, i, x, global_ind, result, left, middle, right, terms,
                 stored, steps, arrivals, trace>>

Prefetch2(w) ==
  /\ app = "StencilFast2" /\ pc[w] = "prefetch"
  /\ LET CA == [l \in Lanes |-> At2(w, MOD_4XSIMTLANES(x[w][l] + SIMTLanes))]
         O  == [l \in Lanes |-> global_ind[w][l] + SIMTLanes]
     IN IF PrefetchCond(i[w])
        THEN \E V \in Loads(O, Lanes) :
                /\ shared' = Store(shared, Lanes, CA, V)
                /\ written' = written \cup {CA[l] : l \in Lanes}
                /\ tileWrites' = tileWrites \cup {Wrote(CA[l], w, l) : l \in Lanes}
                /\ acc' = [op |-> "prefetch", ty |-> w, i |-> i[w], log |->
                     {Rec("in", "in_buf", FALSE, l, "next", O[l], 0, 0, x[w][l] + SIMTLanes, y(w), V[l]) : l \in Lanes}
                     \cup {Rec("tile", "c", TRUE, l, "next", CA[l], w, MOD_4XSIMTLANES(x[w][l] + SIMTLanes),
                               x[w][l] + SIMTLanes, y(w), V[l]) : l \in Lanes}]
        ELSE /\ UNCHANGED <<shared, written, tileWrites>>
             /\ acc' = [op |-> "prefetch", ty |-> w, i |-> i[w], log |-> {}]
  /\ Step(w, AfterPrefetch)
  /\ arrivals' = [arrivals EXCEPT ![w] = @ + 1]
  /\ trace' = [trace EXCEPT ![w] = <<"prefetch">>]
  /\ UNCHANGED <<host, out_buf, i, x, global_ind, result, left, middle, right, terms,
                 stored, steps>>

HasRight2(xv) == xv < x_size - 1
HasLeft2(xv)  == xv > 0
HasDown2(yv)  == yv < y_size - 1
HasUp2(yv)    == yv > 0

Self2(w) ==
  /\ app = "StencilFast2" /\ pc[w] = "self"
  /\ Gather(w, "self", "right",
            [l \in Lanes |-> TRUE],
            [l \in Lanes |-> Global(global_ind[w][l])],
            [l \in Lanes |-> <<x[w][l], y(w)>>])

Right2(w) ==
  /\ app = "StencilFast2" /\ pc[w] = "right"
  /\ Gather(w, "right", "left",
            [l \in Lanes |-> HasRight2(x[w][l])],
            [l \in Lanes |-> Tile2(w, MOD_4XSIMTLANES(x[w][l] + 1))],
            [l \in Lanes |-> <<x[w][l] + 1, y(w)>>])

Left2(w) ==
  /\ app = "StencilFast2" /\ pc[w] = "left"
  /\ Gather(w, "left", "down",
            [l \in Lanes |-> HasLeft2(x[w][l])],
            [l \in Lanes |-> Tile2(w, MOD_4XSIMTLANES(x[w][l] - 1))],
            [l \in Lanes |-> <<x[w][l] - 1, y(w)>>])

Down2(w) ==
  /\ app = "StencilFast2" /\ pc[w] = "down"
  /\ Gather(w, "down", "up",
            [l \in Lanes |-> HasDown2(y(w))],
            [l \in Lanes |-> IF w = blockDim.y - 1 THEN Global(ind2(x[w][l], y(w) + 1))
                             ELSE Tile2(w + 1, MOD_4XSIMTLANES(x[w][l]))],
            [l \in Lanes |-> <<x[w][l], y(w) + 1>>])

Up2(w) ==
  /\ app = "StencilFast2" /\ pc[w] = "up"
  /\ Gather(w, "up", "writeback",
            [l \in Lanes |-> HasUp2(y(w))],
            [l \in Lanes |-> IF w = 0 THEN Global(ind2(x[w][l], y(w) - 1))
                             ELSE Tile2(w - 1, MOD_4XSIMTLANES(x[w][l]))],
            [l \in Lanes |-> <<x[w][l], y(w) - 1>>])

Advance2(w) ==
  /\ app = "StencilFast2" /\ pc[w] = "advance"
  /\ x' = [x EXCEPT ![w] = [l \in Lanes |-> @[l] + SIMTLanes]]
  /\ global_ind' = [global_ind EXCEPT ![w] = [l \in Lanes |-> @[l] + SIMTLanes]]
  /\ i' = [i EXCEPT ![w] = @ + SIMTLanes]
  /\ steps' = [steps EXCEPT ![w] = @ + 1]
  /\ Step(w, IF LoopCond(i[w] + SIMTLanes) THEN "prefetch" ELSE "done")
  /\ acc' = [op |-> "advance", ty |-> w, i |-> i[w], log |-> {}]
  /\ trace' = [trace EXCEPT ![w] = Append(@, "advance")]
  /\ UNCHANGED <<host, out_buf, shared, written, result, left, middle, right, terms,
                 stored, arrivals, tileWrites>>

Finished == pending = {} /\ \A w \in Warps : pc[w] = "done"

\* The host keeps the finished launch's output and launches the next kernel
\* of its plan on the same input, with a zeroed output buffer.
Relaunch ==
  /\ Finished
  /\ run < Len(plan)
  /\ prev_out' = out_buf
  /\ run' = run + 1
  /\ app' = plan[run + 1]
  /\ out_buf' = [o \in Cells |-> 0]
  /\ pending' = Blocks
  /\ blockIdx' = NoBlock
  /\ shared' = [a \in Arena |-> 0]
  /\ written' = {}
  /\ i' = [w \in Warps |-> 0]
  /\ x' = [w \in Warps |-> [l \in Lanes |-> 0]]
  /\ global_ind' = [w \in Warps |-> [l \in Lanes |-> 0]]
  /\ result' = [w \in Warps |-> [l \in Lanes |-> 0]]
  /\ left' = [w \in Warps |-> 0]
  /\ middle' = [w \in Warps |-> 0]
  /\ right' = [w \in Warps |-> 0]
  /\ terms' = [w \in Warps |-> [l \in Lanes |-> [e \in {} |-> 0]]]
  /\ stored' = [o \in Cells |-> 0]
  /\ steps' = [w \in Warps |-> 0]
  /\ arrivals' = [w \in Warps |-> 0]
  /\ acc' = [op |-> "relaunch", ty |-> 0, i |-> 0, log |-> {}]
  /\ trace' = [w \in Warps |-> <<>>]
  /\ tileWrites' = {}
  /\ UNCHANGED <<SIMTWarps, x_size, y_size, in_buf, blockDim, gridDim, pc, beyond, plan>>

Next ==
  \/ \E b \in Blocks : LaunchBlock(b)
  \/ Barrier
  \/ \E w \in Warps : Writeback(w)
  \/ \E w \in Warps : Init3(w)
  \/ \E w \in Warps : Prefetch3(w)
  \/ \E w \in Warps : Self3(w)
  \/ \E w \in Warps : Right3(w)
  \/ \E w \in Warps : Left3(w)
  \/ \E w \in Warps : Down3(w)
  \/ \E w \in Warps : Up3(w)
  \/ \E w \in Warps : Advance3(w)
  \/ \E w \in Warps : Init2(w)
  \/ \E w \in Warps : Prefetch2(w)
  \/ \E w \in Warps : Self2(w)
  \/ \E w \in Warps : Right2(w)
  \/ \E w \in Warps : Left2(w)
  \/ \E w \in Warps : Down2(w)
  \/ \E w \in Warps : Up2(w)
  \/ \E w \in Warps : Advance2(w)

Spec == Init /\ [][Next]_vars

NextTwice == Next \/ Relaunch

SpecTwice == InitTwice /\ [][NextTwice]_vars

\* main of StencilFast3 alone, its warps scheduled fairly: a warp that can
\* execute its next statement group eventually does, the barrier releases
\* once every warp has arrived, and the runtime starts every block.
InitFast3 ==
  \E g \in Geometries :
    \E input \in InputGrids(g.nx * SIMTLanes, g.ny * g.W) :
      /\ Launch("StencilFast3", g.W, g.nx * SIMTLanes, g.ny * g.W, input)
      /\ beyond \in Garbage
      /\ run = 1
      /\ plan = <<"StencilFast3">>
      /\ prev_out = <<>>

WarpStep3(w) ==
  /\ w \in Warps
  /\ \/ Init3(w) \/ Prefetch3(w) \/ Self3(w) \/ Right3(w) \/ Left3(w)
     \/ Down3(w) \/ Up3(w) \/ Writeback(w) \/ Advance3(w)

NextFast3 ==
  \/ \E b \in Blocks : LaunchBlock(b)
  \/ Barrier
  \/ \E w \in Warps : Writeback(w)
  \/ \E w \in Warps : Init3(w)
  \/ \E w \in Warps : Prefetch3(w)
  \/ \E w \in Warps : Self3(w)
  \/ \E w \in Warps : Right3(w)
  \/ \E w \in Warps : Left3(w)
  \/ \E w \in Warps : Down3(w)
  \/ \E w \in Warps : Up3(w)
  \/ \E w \in Warps : Advance3(w)

FairFast3 ==
  /\ InitFast3 /\ [][NextFast3]_vars
  /\ \A w \in 0 .. MaxWarps - 1 : WF_vars(WarpStep3(w))
  /\ WF_vars(Barrier)
  /\ WF_vars(\E b \in Blocks : LaunchBlock(b))

\* main of StencilFast2 alone on the grids of one block row, up to
\* MaxWindows windows wide and of at most MaxStripCells cells.
InitFast2 ==
  \E W \in 1 .. MaxWarps :
    \E nx \in {n \in 1 .. MaxWindows : n * SIMTLanes * W <= MaxStripCells} :
     \E input \in InputGrids(nx * SIMTLanes, W) :
      /\ Launch("StencilFast2", W, nx * SIMTLanes, W, input)
      /\ beyond \in Garbage
      /\ run = 1
      /\ plan = <<"StencilFast2">>
      /\ prev_out = <<>>

NextFast2 ==
  \/ \E b \in Blocks : LaunchBlock(b)
  \/ Barrier
  \/ \E w \in Warps : Writeback(w)
  \/ \E w \in Warps : Init2(w)
  \/ \E w \in Warps : Prefetch2(w)
  \/ \E w \in Warps : Self2(w)
  \/ \E w \in Warps : Right2(w)
  \/ \E w \in Warps : Left2(w)
  \/ \E w \in Warps : Down2(w)
  \/ \E w \in Warps : Up2(w)
  \/ \E w \in Warps : Advance2(w)

SpecFast2 == InitFast2 /\ [][NextFast2]_vars

\* ------------------------------------------------------------------ claims
\* The five-point sum of the specification: the cell plus each direct
\* neighbour whose coordinate lies inside the grid.
StencilSum(cx, cy) ==
  in_buf[offset(cx, cy)]
  + (IF InGrid(cx + 1, cy) THEN in_buf[offset(cx + 1, cy)] ELSE 0)
  + (IF InGrid(cx - 1, cy) THEN in_buf[offset(cx - 1, cy)] ELSE 0)
  + (IF InGrid(cx, cy + 1) THEN in_buf[offset(cx, cy + 1)] ELSE 0)
  + (IF InGrid(cx, cy - 1) THEN in_buf[offset(cx, cy - 1)] ELSE 0)

OutputIsStencil ==
  \A cx \in 0 .. x_size - 1, cy \in 0 .. y_size - 1 :
    out_buf[offset(cx, cy)] = StencilSum(cx, cy)

\* C1: when a StencilFast3 launch completes, every cell holds the five-point
\* sum over its in-grid neighbours, which is what generate_golden_output
\* computes, for every admissible grid and every interleaving of warps.
C1_Fast3OutputIsGolden ==
  (app = "StencilFast3" /\ Finished) =>
     (OutputIsStencil /\ out_buf = generate_golden_output3)

\* C2: when a StencilFast2 launch completes, every cell holds the five-point
\* sum over its in-grid neighbours, for every rectangular admissible grid.
C2_Fast2OutputIsStencil ==
  (app = "StencilFast2" /\ Finished) => OutputIsStencil

\* C3: on the same input and launch geometry, StencilFast2 and StencilFast3
\* finish with identical output buffers.
C3_Fast2EqualsFast3 ==
  (plan = <<"StencilFast2", "StencilFast3">> /\ run = 2 /\ Finished) => out_buf = prev_out

\* C9: a launch re-run on the same input finishes with the output of the
\* first run, whatever the interleaving of warps and blocks in either run.
C9_RerunSameOutput ==
  (Len(plan) = 2 /\ plan[1] = plan[2] /\ run = 2 /\ Finished) => out_buf = prev_out

\* C4: across one launch with main's geometry every output cell is stored
\* exactly once: never a second store, and one store once the launch is over.
C4_EachCellStoredOnce ==
  /\ \A o \in Cells : stored[o] <= 1
  /\ Finished => \A o \in Cells : stored[o] = 1

\* C5: every access to in_buf or out_buf for logical coordinate (x, y) is at
\* offset y * x_size + x, and so is the index of both golden generators.
C5_RowMajorOffsets ==
  /\ \A a \in acc.log : a.buf \in {"in", "out"} => a.addr = offset(a.cx, a.cy)
  /\ Finished => \A cx \in 0 .. x_size - 1, cy \in 0 .. y_size - 1 :
                    ind2(cx, cy) = offset(cx, cy) /\ ind3(cx, cy) = offset(cx, cy)

\* C6: the Prefetch state of the final step (i + SIMTLanes >= x_size)
\* touches no memory; in every earlier step each lane loads exactly
\* input[x + SIMTLanes, y], from inside the buffer, and stores it to one slot.
C6_PrefetchSkippedAtRightEdge ==
  acc.op = "prefetch" =>
    IF acc.i + SIMTLanes >= x_size
    THEN acc.log = {}
    ELSE \A l \in Lanes :
           /\ \E a \in acc.log :
                /\ {b \in acc.log : b.tx = l /\ b.buf = "in"} = {a}
                /\ a.addr = offset(acc.i + l + SIMTLanes, y(acc.ty))
                /\ a.addr \in Cells
                /\ a.val = in_buf[offset(acc.i + l + SIMTLanes, y(acc.ty))]
           /\ Cardinality({b \in acc.log : b.tx = l /\ b.buf = "tile" /\ b.wr}) = 1

\* C8: every tile slot read during Compute was written earlier in the block
\* and holds the input value of the grid cell the read stands for.
C8_TileReadsHoldInput ==
  \A a \in acc.log :
    (a.buf = "tile" /\ ~a.wr) =>
       /\ a.addr \in written
       /\ InGrid(a.cx, a.cy)
       /\ a.val = in_buf[offset(a.cx, a.cy)]

Nb(d, cx, cy) ==
  CASE d = "right" -> <<cx + 1, cy>>
    [] d = "left"  -> <<cx - 1, cy>>
    [] d = "down"  -> <<cx, cy + 1>>
    [] d = "up"    -> <<cx, cy - 1>>

NbInGrid(d, cx, cy) == InGrid(Nb(d, cx, cy)[1], Nb(d, cx, cy)[2])

\* C7: a lane reads the neighbour of a direction exactly when that
\* neighbour's coordinate lies inside the grid; the value it stores is the
\* sum of its own term and the terms of the in-grid neighbours only (five
\* terms inside, four on an edge, three in a corner), and in a single-row
\* grid of itself and its left and right neighbours only.
C7_EdgeSuppression ==
  /\ \A a \in acc.log :
       (~a.wr /\ a.dir \in Dirs \ {"self"}) => InGrid(a.cx, a.cy)
  /\ acc.op \in Dirs \ {"self"} =>
       {a.tx : a \in acc.log} =
          {l \in Lanes : NbInGrid(acc.op, x[acc.ty][l], y(acc.ty))}
  /\ \A w \in Warps : pc[w] = "writeback" =>
       \A l \in Lanes :
         /\ DOMAIN terms[w][l] =
              {"self"} \cup {d \in Dirs \ {"self"} : NbInGrid(d, x[w][l], y(w))}
         /\ result[w][l] = SumOver(terms[w][l], DOMAIN terms[w][l])
         /\ y_size = 1 => DOMAIN terms[w][l] \subseteq {"self", "left", "right"}

C7_SingleRowWitness ==
  \E w \in Warps, l \in Lanes :
    /\ pc[w] = "writeback" /\ y_size = 1
    /\ DOMAIN terms[w][l] = {"self", "left", "right"}

C11_SingleWindowGrid ==
  x_size = SIMTLanes =>
    /\ \A w \in Warps :
         /\ steps[w] <= 1
         /\ (blockIdx # NoBlock /\ pc[w] = "done") => steps[w] = 1
    /\ acc.op = "prefetch" => acc.log = {}
    /\ \A a \in acc.log :
         (a.buf = "tile" /\ ~a.wr) =>
            /\ a.arr \notin {"left", "right"}
            /\ a.cx \in 0 .. SIMTLanes - 1
    /\ Finished => OutputIsStencil

\* C12: in StencilFast3, when warp row w starts the Compute state of step k,
\* its row of `middle` holds window k of the input, its row of `left` holds
\* window k-1 (zeros when k = 0) and, unless k is the last step, its row of
\* `right` holds window k+1; the Advance state makes the old `middle` the
\* new `left` and the old `right` the new `middle`.
C12_RotationHoldsWindows ==
  /\ [](\A w \in Warps :
          (app = "StencilFast3" /\ pc[w] = "self") =>
             \A l \in Lanes :
               /\ shared[At3(middle[w], w, l)] = in_buf[offset(i[w] + l, y(w))]
               /\ shared[At3(left[w], w, l)] =
                    (IF i[w] = 0 THEN 0 ELSE in_buf[offset(i[w] - SIMTLanes + l, y(w))])
               /\ (i[w] + SIMTLanes < x_size) =>
                    shared[At3(right[w], w, l)] = in_buf[offset(i[w] + SIMTLanes + l, y(w))])
  /\ [][\A w \in Warps :
          (app = "StencilFast3" /\ pc[w] = "advance" /\ pc'[w] # "advance") =>
             (left'[w] = middle[w] /\ middle'[w] = right[w])]_vars

\* C13: in StencilFast3, from the start of a block on, `left`, `middle` and
\* `right` of every lane designate three pairwise distinct buffers, namely
\* the three buffers of the block's arena in some order.
C13_ThreeDistinctBuffers ==
  (app = "StencilFast3" /\ blockIdx # NoBlock) =>
     \A w \in Warps :
       /\ left[w] # middle[w] /\ middle[w] # right[w] /\ left[w] # right[w]
       /\ {left[w], middle[w], right[w]} =
            {0, SIMTWarps * SIMTLanes, 2 * SIMTWarps * SIMTLanes}

C15_Fast3RaceFree ==
  app = "StencilFast3" =>
     \A a \in acc.log :
       (a.buf = "tile" /\ a.wr) =>
          \A v \in Warps \ {acc.ty} :
            pc[v] \in {"self", "right", "left", "down", "up"} =>
               /\ a.addr \notin {At3(middle[v], v, l) : l \in Lanes}
               /\ HasRight3(x[v][SIMTLanes - 1]) => a.addr # At3(right[v], v, 0)
               /\ HasLeft3(x[v][0]) => a.addr # At3(left[v], v, SIMTLanes - 1)
               /\ (HasDown3(y(v)) /\ v # blockDim.y - 1) =>
                     a.addr \notin {At3(middle[v], v + 1, l) : l \in Lanes}
               /\ (HasUp3(y(v)) /\ v # 0) =>
                     a.addr \notin {At3(middle[v], v - 1, l) : l \in Lanes}

\* C16: every tile write of a lane (threadIdx.x, threadIdx.y) goes to a slot
\* of its own warp row threadIdx.y inside the block's tile, at its self
\* column or its prefetch column (column threadIdx.x of a StencilFast3
\* buffer, the ring column of x or x + SIMTLanes in StencilFast2), and
\* between two consecutive barriers no slot is written by two distinct lanes.
C16_WriteOwnership ==
  /\ \A a \in acc.log :
       (a.buf = "tile" /\ a.wr) =>
          /\ a.row = acc.ty
          /\ IF app = "StencilFast3"
             THEN /\ a.col = a.tx
                  /\ a.addr \in {At3(b, acc.ty, a.tx) :
                                   b \in {0, SIMTWarps * SIMTLanes, 2 * SIMTWarps * SIMTLanes}}
             ELSE /\ a.cx \in {x[acc.ty][a.tx], x[acc.ty][a.tx] + SIMTLanes}
                  /\ a.col = a.cx % shared_mem_x_size
                  /\ a.addr \in {At2(acc.ty, c) : c \in 0 .. shared_mem_x_size - 1}
  /\ \A e1 \in tileWrites, e2 \in tileWrites :
       e1.addr = e2.addr => (e1.ty = e2.ty /\ e1.tx = e2.tx)

\* C17: in every step a warp executes Prefetch, the barrier, the self read
\* and the right, left, down and up branches, each branch followed at once
\* by a reconvergence point, then Writeback and Advance, in this order; at
\* Writeback it has executed exactly four reconvergence points whatever
\* branches its lanes took, and a completed step is the whole sequence.
C17_StepOrder ==
  LET Full == <<"prefetch", "__syncthreads", "self", "right", "noclConverge",
                "left", "noclConverge", "down", "noclConverge", "up", "noclConverge",
                "writeback", "advance">>
      At   == [s \in {"barrier", "self", "right", "left", "down", "up", "writeback", "advance"} |->
                CASE s = "barrier" -> 1 [] s = "self" -> 2 [] s = "right" -> 3
                  [] s = "left" -> 5 [] s = "down" -> 7 [] s = "up" -> 9
                  [] s = "writeback" -> 11 [] s = "advance" -> 12]
  IN \A w \in Warps :
       /\ Len(trace[w]) <= Len(Full)
       /\ trace[w] = SubSeq(Full, 1, Len(trace[w]))
       /\ pc[w] \in DOMAIN At => Len(trace[w]) = At[pc[w]]
       /\ pc[w] = "writeback" =>
            Cardinality({n \in 1 .. Len(trace[w]) : trace[w][n] = "noclConverge"}) = 4
       /\ (steps[w] >= 1 /\ pc[w] \in {"prefetch", "done"}) => trace[w] = Full

C17_DivergedLanesWitness ==
  \E w \in Warps, l \in Lanes, m \in Lanes :
    /\ pc[w] = "writeback"
    /\ Cardinality({n \in 1 .. Len(trace[w]) : trace[w][n] = "noclConverge"}) = 4
    /\ Cardinality(DOMAIN terms[w][l]) = 5
    /\ Cardinality(DOMAIN terms[w][m]) < 5

\* C18: a lane of the last (first) warp row of its block reads its in-grid
\* down (up) neighbour from in_buf, every other lane reads it from tile row
\* threadIdx.y + 1 (threadIdx.y - 1); every tile access has a row index in
\* [0, SIMTWarps), a column index inside the tile width and an address
\* inside the tile of the lane's own block.
C18_VerticalHalo ==
  /\ \A a \in acc.log :
       /\ (acc.op = "down" /\ acc.ty = blockDim.y - 1) => a.buf = "in"
       /\ (acc.op = "down" /\ acc.ty # blockDim.y - 1) =>
             (a.buf = "tile" /\ a.row = acc.ty + 1)
       /\ (acc.op = "up" /\ acc.ty = 0) => a.buf = "in"
       /\ (acc.op = "up" /\ acc.ty # 0) => (a.buf = "tile" /\ a.row = acc.ty - 1)
  /\ \A a \in acc.log :
       a.buf = "tile" =>
          /\ a.row \in 0 .. SIMTWarps - 1
          /\ IF app = "StencilFast3"
             THEN /\ a.col \in 0 .. SIMTLanes - 1
                  /\ a.addr \in 0 .. 3 * SIMTWarps * SIMTLanes - 1
             ELSE /\ a.col \in 0 .. shared_mem_x_size - 1
                  /\ a.addr \in 0 .. SIMTWarps * shared_mem_x_size - 1

\* C19: for every column value v that StencilFast2 indexes its tile with,
\* MOD_4XSIMTLANES(v) = v mod (4 * SIMTLanes) < shared_mem_x_size, and the
\* columns of the windows k-1 .. k+2 of a step map to pairwise distinct slots.
C19_MaskIsModulo ==
  app = "StencilFast2" =>
     /\ \A a \in acc.log :
          a.arr = "c" =>
             /\ a.col = MOD_4XSIMTLANES(a.cx)
             /\ MOD_4XSIMTLANES(a.cx) = a.cx % (4 * SIMTLanes)
             /\ MOD_4XSIMTLANES(a.cx) < shared_mem_x_size
     /\ \A w \in Warps :
          LET live == {v \in i[w] - SIMTLanes .. i[w] + 3 * SIMTLanes - 1 : v >= 0}
          IN \A v1 \in live, v2 \in live :
               v1 # v2 => MOD_4XSIMTLANES(v1) # MOD_4XSIMTLANES(v2)

\* C20: two warps of a block are never more than one step apart, and a warp
\* that is a step ahead of another has executed at most the Prefetch of its
\* step (it is before or at the barrier, or has left the loop) while the
\* other is between the barrier and the end of Advance of the previous step.
C20_BoundedSkew ==
  \A a \in Warps, b \in Warps :
    /\ i[a] - i[b] <= SIMTLanes
    /\ steps[a] - steps[b] <= 1
    /\ i[a] > i[b] =>
         /\ pc[a] \in {"prefetch", "barrier", "done"}
         /\ pc[b] \in {"self", "right", "left", "down", "up", "writeback", "advance"}

C20_AheadAtBarrierWitness ==
  \E a \in Warps, b \in Warps :
    /\ i[a] = i[b] + SIMTLanes
    /\ pc[a] = "barrier" /\ pc[b] = "self"
    /\ \E e \in tileWrites : e.ty = a

====
